---- MODULE Spec2Model ----
(***************************************************************************)
(* Terrain streaming scheduler of FlightSimulator (src/main.js): the chunk *)
(* store terrainChunks, the load queue chunkLoadQueue, the removal queue   *)
(* chunkRemovalQueue and the per-frame step updateTerrain, driven by the   *)
(* camera pose that updateFlight leaves behind.                            *)
(***************************************************************************)
EXTENDS Integers, Sequences, FiniteSets, TLC

(* ---------------- configuration (FlightSimulator.constructor) ----------- *)
chunkSize == 300
chunksVisible == 5
loadThresholdPct == 70
chunksPerFrame == 3
lookAheadDistance == 4
removalsPerFrame == 2
\* chunkSize of the earlier, synchronous version
syncChunkSize == 200
\* chunksVisible of the earlier, synchronous version
syncChunksVisible == 5
\* noiseScale = 0.002, in thousandths
noiseScaleMilli == 2
heightScale == 500
\* lakeThreshold = 0.1, in thousandths
lakeThresholdMilli == 100
lakeSize == 40
\* treeDensity = 0.0007, in ten-thousandths
treeDensityE4 == 7
waterLevel == 40
minClearance == 25
\* camera.position.set(0, 100, 0)
initialAltitude == 100
\* maxSpeed = 2.4, in tenths
maxSpeedTenths == 24
\* PlaneGeometry(chunkSize, chunkSize, 40, 40)
segments == 40

(* ---------------- bounds of the explored observer inputs ---------------- *)
\* the observer's chunk stays in 0..MaxChunkX x 0..MaxChunkZ
MaxChunkX == 1
MaxChunkZ == 0
\* chunks the observer may advance per frame on one axis
MaxJump == 1
\* changes of the observer's pose explored (frames without a change are not bounded)
MaxMoves == 2
\* frames of sustained travel explored
MaxTravel == 125
\* frames of the out-and-back flight explored
MaxRetreat == 3
\* frames of flight at bounded speed explored
MaxFly == 4
\* frames of the flight that turns back and forth and then holds its chunk
MaxShuttle == 12
\* leading frames of that flight in which the observer may change chunk
MaxTurns == 4
\* largest whole displacement per frame that is sampled
MaxStep == 2
\* grid segments per chunk side that are sampled (of the geometry's segments)
MaxSegments == 2
\* tree candidates per chunk that are sampled (of numberOfTrees)
MaxTrees == 1

VARIABLES cameraX, cameraZ, direction, terrainChunks, chunkLoadQueue,
          chunkRemovalQueue, pc, moves, loaded, evicted, enqueuedRemovals,
          seed, randomState, scene, candidates, enqueuedLoads, cameraY,
          syncChunks

vars == <<cameraX, cameraZ, direction, terrainChunks, chunkLoadQueue,
          chunkRemovalQueue, pc, moves, loaded, evicted, enqueuedRemovals,
          seed, randomState, scene, candidates, enqueuedLoads, cameraY,
          syncChunks>>

(* ---------------- helpers ------------------------------------------------ *)
Abs(n) == IF n < 0 THEN -n ELSE n

Max(a, b) == IF a > b THEN a ELSE b

Min(a, b) == IF a < b THEN a ELSE b

\* Math.floor(position / chunkSize)
Floor(pos) == pos \div chunkSize

\* Math.round(d * lookAheadDistance) for d given in hundredths: floor(v + 1/2)
Round(d) == (2 * d * lookAheadDistance + 100) \div 200

\* `${n}`: the sign and the decimal magnitude of an integer
NumToStr(n) == IF n < 0 THEN <<"-", -n>> ELSE <<"", n>>

\* Number(s)
Number(s) == IF s[1] = "-" THEN -s[2] ELSE s[2]

\* `${x},${z}`
KeyOf(x, z) == <<NumToStr(x), NumToStr(z)>>

\* key.split(',').map(Number)
SplitKey(key) == <<Number(key[1]), Number(key[2])>>

\* the image of a sequence
Range(s) == {s[i] : i \in DOMAIN s}

(* ---------------- the Map terrainChunks ---------------------------------- *)
\* terrainChunks is kept as the Map's entries in insertion order,
\* each entry [key, chunk]
MapHas(m, key) == \E i \in DOMAIN m : m[i].key = key

MapGet(m, key) == (CHOOSE e \in Range(m) : e.key = key).chunk

MapSet(m, key, chunk) ==
    IF MapHas(m, key)
    THEN [i \in DOMAIN m |-> IF m[i].key = key THEN [key |-> key, chunk |-> chunk] ELSE m[i]]
    ELSE Append(m, [key |-> key, chunk |-> chunk])

MapDelete(m, key) == SelectSeq(m, LAMBDA e : e.key # key)

MapKeys(m) == {m[i].key : i \in DOMAIN m}

(* ---------------- coherent noise and Math.random ------------------------- *)
\* noise.perlin2 of the seeded noise library, on arguments and with values in
\* thousandths: a continuous field with values in [-1, 1] that depends on the
\* position and the seed only.  A seed <<a, b>> selects the field
\* Tri(a*u + b*v): constant for <<0, 0>>, ridges across x for <<a, 0>>,
\* across z for <<0, b>>.
Tri(t) ==
    LET p == t % 4000
    IN IF p <= 1000 THEN p ELSE IF p <= 3000 THEN 2000 - p ELSE p - 4000

perlin2(sd, u, v) == Tri(sd[1] * u + sd[2] * v)

\* Math.random(): the generator's hidden state advances with every call; the
\* value returned is randomState / RandomModulus
RandomModulus == 5

NextRandom(s) == (s + 1) % RandomModulus

(* ---------------- getElevation ------------------------------------------- *)
\* elevations are kept exactly, in units of 1 / HeightUnit
HeightUnit == 16000 \div heightScale

\* lines 259-272: four octaves with weights 1, 0.5, 0.25, 0.125, then
\* (elevation + 1) * 0.5 * heightScale
getElevation(sd, x, z) ==
    8 * perlin2(sd, x * noiseScaleMilli, z * noiseScaleMilli)
    + 4 * perlin2(sd, x * noiseScaleMilli * 2, z * noiseScaleMilli * 2)
    + 2 * perlin2(sd, x * noiseScaleMilli * 4, z * noiseScaleMilli * 4)
    + perlin2(sd, x * noiseScaleMilli * 8, z * noiseScaleMilli * 8)
    + 8000

(* ---------------- createTerrainChunk ------------------------------------- *)
\* object identities in use: chunks referenced from the store or from a
\* removal item
LiveIds(m, rq) == {m[i].chunk.id : i \in DOMAIN m} \cup {rq[i].chunk.id : i \in DOMAIN rq}

\* a new object: an identity different from every live one
FreshId(m, rq) ==
    LET live == LiveIds(m, rq)
    IN CHOOSE n \in 1..(Cardinality(live) + 1) : n \notin live

\* the local coordinates of the plane's vertices along one side
GridSteps == Min(segments, MaxSegments)

GridCoords == {i * (chunkSize \div GridSteps) - chunkSize \div 2 : i \in 0..GridSteps}

\* lines 138-149: every vertex gets the elevation of its world position
Heights(sd, x, z) ==
    [p \in GridCoords \X GridCoords |->
        getElevation(sd, p[1] + x * chunkSize, p[2] + z * chunkSize)]

\* Math.sqrt, rounded down to a whole unit
Sqrt(n) == CHOOSE r \in 0..n : r * r <= n /\ n < (r + 1) * (r + 1)

\* lines 239-248: waterLevel - 15 + smoothFactor * 10 at local position p
BasinRadius == (chunkSize * lakeSize) \div 2

BasinHeight(p) ==
    (waterLevel - 15) * HeightUnit
    + (10 * HeightUnit * (BasinRadius - Min(Sqrt(p[1] * p[1] + p[2] * p[2]), BasinRadius)))
        \div BasinRadius

\* lines 234-250: vertices below waterLevel + 10 are lowered to the basin
Carve(v) ==
    [p \in DOMAIN v |->
        IF v[p] < (waterLevel + 10) * HeightUnit THEN Min(v[p], BasinHeight(p)) ELSE v[p]]

\* line 211: the lake-suitability sample of the chunk
lakeNoise(sd, x, z) == perlin2(sd, x * chunkSize, z * chunkSize)

\* variant of HasLake that also accepts a sample equal to the threshold
HasLakeAtThreshold(sd, x, z) == lakeNoise(sd, x, z) >= lakeThresholdMilli

\* line 213
HasLake(sd, x, z) == lakeNoise(sd, x, z) > lakeThresholdMilli

\* line 166
numberOfTrees == (chunkSize * chunkSize * treeDensityE4) \div 10000

\* variant of RandomOffset measured from the chunk position: Math.random() * chunkSize
RandomOffsetUncentred(r) == (r * chunkSize) \div RandomModulus

\* lines 170-171: (Math.random() - 0.5) * chunkSize
RandomOffset(r) == ((2 * r - RandomModulus) * chunkSize) \div (2 * RandomModulus)

\* variant of AcceptsTree that also samples the slope along z
AcceptsTreeBothAxes(sd, treeX, treeZ) ==
    /\ Abs(getElevation(sd, treeX + 1, treeZ) - getElevation(sd, treeX, treeZ)) < 3 * HeightUnit
    /\ Abs(getElevation(sd, treeX, treeZ + 1) - getElevation(sd, treeX, treeZ)) < 3 * HeightUnit

\* lines 174-179: the simplified slope check
AcceptsTree(sd, treeX, treeZ) ==
    Abs(getElevation(sd, treeX + 1, treeZ) - getElevation(sd, treeX, treeZ)) < 3 * HeightUnit

\* lines 168-206: the tree loop; acc holds the trees pushed so far, the
\* generator state and the candidates sampled
RECURSIVE PlantTrees(_, _, _, _, _)
PlantTrees(sd, x, z, n, acc) ==
    IF n = 0 THEN acc
    ELSE LET r1    == acc.random
             r2    == NextRandom(r1)
             treeX == RandomOffset(r1) + x * chunkSize
             treeZ == RandomOffset(r2) + z * chunkSize
             ok    == AcceptsTree(sd, treeX, treeZ)
             r3    == NextRandom(r2)
             r4    == NextRandom(r3)
             tree  == [x |-> treeX, y |-> getElevation(sd, treeX, treeZ), z |-> treeZ,
                       rotation |-> r3, scale |-> r4]
         IN PlantTrees(sd, x, z, n - 1,
                [trees      |-> IF ok THEN Append(acc.trees, tree) ELSE acc.trees,
                 random     |-> IF ok THEN NextRandom(r4) ELSE r3,
                 candidates |-> Append(acc.candidates, [x |-> treeX, z |-> treeZ, accepted |-> ok])])

\* createTerrainChunk(x, z): the new chunk, the generator state it leaves and
\* the candidates it sampled
createTerrainChunk(sd, rnd, x, z, m, rq) ==
    LET planted == PlantTrees(sd, x, z, Min(numberOfTrees, MaxTrees),
                              [trees |-> <<>>, random |-> rnd, candidates |-> <<>>])
        lake    == HasLake(sd, x, z)
        raw     == Heights(sd, x, z)
    IN [chunk      |-> [id |-> FreshId(m, rq), x |-> x, z |-> z,
                        vertices |-> IF lake THEN Carve(raw) ELSE raw,
                        trees |-> planted.trees, water |-> lake],
        random     |-> planted.random,
        candidates |-> planted.candidates]

\* the objects a chunk registers with the scene: its mesh (162), the trunk
\* and top of every tree (200-201) and its water plane (231)
TreeVisuals(chunk) ==
    {<<chunk.id, "trunk", i>> : i \in DOMAIN chunk.trees}
    \cup {<<chunk.id, "top", i>> : i \in DOMAIN chunk.trees}

WaterVisuals(chunk) == IF chunk.water THEN {<<chunk.id, "water", 0>>} ELSE {}

Visuals(chunk) == {<<chunk.id, "mesh", 0>>} \cup TreeVisuals(chunk) \cup WaterVisuals(chunk)

\* lines 356-358 for one load item: create the chunk and set it under its key
MaterializeOne(it, w, rq, sd) ==
    LET made == createTerrainChunk(sd, w.random, it.x, it.z, w.m, rq)
    IN [m          |-> MapSet(w.m, KeyOf(it.x, it.z), made.chunk),
        scene      |-> w.scene \cup Visuals(made.chunk),
        random     |-> made.random,
        candidates |-> w.candidates \o made.candidates]

\* the items are materialized in order, each on the result of the one before
RECURSIVE Materialize(_, _, _, _)
Materialize(items, w, rq, sd) ==
    IF items = <<>> THEN w
    ELSE IF Len(items) = 1 THEN MaterializeOne(items[1], w, rq, sd)
    ELSE LET half  == Len(items) \div 2
             first == Materialize(SubSeq(items, 1, half), w, rq, sd)
         IN IF first.random \in 0..(RandomModulus - 1)
            THEN Materialize(SubSeq(items, half + 1, Len(items)), first, rq, sd)
            ELSE first

(* ---------------- createInitialTerrain ----------------------------------- *)
Side == 2 * chunksVisible + 1

\* the visibility loop's coordinates around (cx, cz), x outer, z inner
WindowSeq(cx, cz) ==
    [i \in 1..(Side * Side) |->
        <<cx - chunksVisible + ((i - 1) \div Side),
          cz - chunksVisible + ((i - 1) % Side)>>]

\* the cloud group (line 80) and the two lights (276-281)
OtherVisuals == {<<0, "clouds", 0>>, <<0, "ambientLight", 0>>, <<0, "directionalLight", 0>>}

\* lines 274-290: the loop creates one new chunk per window coordinate, in
\* loop order, and sets it under its key
createInitialTerrain(sd, rnd) ==
    LET w == WindowSeq(0, 0)
    IN Materialize([i \in DOMAIN w |-> [x |-> w[i][1], z |-> w[i][2]]],
                   [m |-> <<>>, scene |-> OtherVisuals, random |-> rnd, candidates |-> <<>>],
                   <<>>, sd)

\* the seed and the generator state the explored runs start from
DefaultSeed == <<2, 1>>

FirstRandom == 0

InitialWorld == createInitialTerrain(DefaultSeed, FirstRandom)

(* ---------------- updateTerrain ------------------------------------------ *)
currentChunkX == Floor(cameraX)
currentChunkZ == Floor(cameraZ)

\* progressX > loadThreshold, progressX < 1 - loadThreshold (exact arithmetic)
ProgressAbove(pos) == (pos % chunkSize) * 100 > loadThresholdPct * chunkSize
ProgressBelow(pos) == (pos % chunkSize) * 100 < (100 - loadThresholdPct) * chunkSize

predictedX == currentChunkX + Round(direction[1])
predictedZ == currentChunkZ + Round(direction[2])

distanceFromCurrent(x, z) == Max(Abs(x - currentChunkX), Abs(z - currentChunkZ))

inDirectionCone(x, z) == Abs(x - predictedX) <= 2 /\ Abs(z - predictedZ) <= 2

\* variant of DirectionalBonus that rewards the side the observer leaves
DirectionalBonusTrailing(x, z) ==
    (IF direction[1] > 0 /\ ProgressAbove(cameraX)
        THEN (IF x < currentChunkX THEN 5 ELSE 0)
     ELSE IF direction[1] < 0 /\ ProgressBelow(cameraX)
        THEN (IF x > currentChunkX THEN 5 ELSE 0)
     ELSE 0)
    +
    (IF direction[2] > 0 /\ ProgressAbove(cameraZ)
        THEN (IF z < currentChunkZ THEN 5 ELSE 0)
     ELSE IF direction[2] < 0 /\ ProgressBelow(cameraZ)
        THEN (IF z > currentChunkZ THEN 5 ELSE 0)
     ELSE 0)

DirectionalBonus(x, z) ==
    (IF direction[1] > 0 /\ ProgressAbove(cameraX)
        THEN (IF x > currentChunkX THEN 5 ELSE 0)
     ELSE IF direction[1] < 0 /\ ProgressBelow(cameraX)
        THEN (IF x < currentChunkX THEN 5 ELSE 0)
     ELSE 0)
    +
    (IF direction[2] > 0 /\ ProgressAbove(cameraZ)
        THEN (IF z > currentChunkZ THEN 5 ELSE 0)
     ELSE IF direction[2] < 0 /\ ProgressBelow(cameraZ)
        THEN (IF z < currentChunkZ THEN 5 ELSE 0)
     ELSE 0)

\* variant of Priority whose cone term does not fall with the distance
PriorityConeConstant(x, z) ==
    DirectionalBonus(x, z)
    + (IF inDirectionCone(x, z) THEN 10 ELSE -distanceFromCurrent(x, z))

Priority(x, z) ==
    DirectionalBonus(x, z)
    + (IF inDirectionCone(x, z) THEN 10 - distanceFromCurrent(x, z)
                                ELSE -distanceFromCurrent(x, z))

QueueHas(q, key) == \E i \in DOMAIN q : q[i].key = key

\* lines 310-340: the load items pushed by the visibility loop
LoadItem(c) == [key |-> KeyOf(c[1], c[2]), x |-> c[1], z |-> c[2], priority |-> Priority(c[1], c[2])]

\* variant of EnqueuedLoads without the terrainChunks.has(key) test
EnqueuedLoadsIgnoringStore ==
    LET queued   == MapKeys(chunkLoadQueue)
        NeedsLoad(c) == KeyOf(c[1], c[2]) \notin queued
        missing  == SelectSeq(WindowSeq(currentChunkX, currentChunkZ), NeedsLoad)
    IN [i \in DOMAIN missing |-> LoadItem(missing[i])]

\* variant of EnqueuedLoads without the chunkLoadQueue.some(...) test
EnqueuedLoadsNoDedup ==
    LET resident == MapKeys(terrainChunks)
        NeedsLoad(c) == KeyOf(c[1], c[2]) \notin resident
        missing  == SelectSeq(WindowSeq(currentChunkX, currentChunkZ), NeedsLoad)
    IN [i \in DOMAIN missing |-> LoadItem(missing[i])]

\* variant of EnqueuedLoads that pushes no more items than one frame loads
EnqueuedLoadsBudgeted ==
    LET resident == MapKeys(terrainChunks)
        queued   == MapKeys(chunkLoadQueue)
        NeedsLoad(c) == KeyOf(c[1], c[2]) \notin resident /\ KeyOf(c[1], c[2]) \notin queued
        missing  == SelectSeq(WindowSeq(currentChunkX, currentChunkZ), NeedsLoad)
    IN [i \in 1..Min(chunksPerFrame, Len(missing)) |-> LoadItem(missing[i])]

EnqueuedLoads ==
    LET resident == MapKeys(terrainChunks)
        queued   == MapKeys(chunkLoadQueue)
        NeedsLoad(c) == KeyOf(c[1], c[2]) \notin resident /\ KeyOf(c[1], c[2]) \notin queued
        missing  == SelectSeq(WindowSeq(currentChunkX, currentChunkZ), NeedsLoad)
    IN [i \in DOMAIN missing |-> LoadItem(missing[i])]

\* a retention window one chunk narrower than the load window
OutOfRangeNarrow(key) ==
    LET c == SplitKey(key)
    IN \/ Abs(c[1] - currentChunkX) > chunksVisible - 1
       \/ Abs(c[2] - currentChunkZ) > chunksVisible - 1

\* a retention window one chunk wider than the load window
OutOfRangeWide(key) ==
    LET c == SplitKey(key)
    IN \/ Abs(c[1] - currentChunkX) > chunksVisible + 1
       \/ Abs(c[2] - currentChunkZ) > chunksVisible + 1

\* lines 343-351: the removal items pushed by the scan of the Map
OutOfRange(key) ==
    LET c == SplitKey(key)
    IN \/ Abs(c[1] - currentChunkX) > chunksVisible
       \/ Abs(c[2] - currentChunkZ) > chunksVisible

\* variant of EnqueuedRemovals without the chunkRemovalQueue.some(...) test
EnqueuedRemovalsNoDedup ==
    LET NeedsRemoval(e) == OutOfRange(e.key)
    IN SelectSeq(terrainChunks, NeedsRemoval)

\* variant of EnqueuedRemovals that pushes no more items than one frame removes
EnqueuedRemovalsBudgeted ==
    LET queued == MapKeys(chunkRemovalQueue)
        NeedsRemoval(e) == OutOfRange(e.key) /\ e.key \notin queued
        found  == SelectSeq(terrainChunks, NeedsRemoval)
    IN SubSeq(found, 1, Min(removalsPerFrame, Len(found)))

EnqueuedRemovals ==
    LET queued == MapKeys(chunkRemovalQueue)
        NeedsRemoval(e) == OutOfRange(e.key) /\ e.key \notin queued
    IN SelectSeq(terrainChunks, NeedsRemoval)

\* line 354: sort((a, b) => b.priority - a.priority), a stable sort
PriorityRange(q) == {q[i].priority : i \in DOMAIN q}

RECURSIVE SortByPriority(_, _)
SortByPriority(q, ps) ==
    IF ps = {} THEN <<>>
    ELSE LET top == CHOOSE p \in ps : \A r \in ps : r <= p
         IN SelectSeq(q, LAMBDA it : it.priority = top) \o SortByPriority(q, ps \ {top})

\* variant of Sort that first recomputes every item's priority for the
\* current pose
SortRecomputing(q) ==
    LET r == [i \in DOMAIN q |-> [q[i] EXCEPT !.priority = Priority(q[i].x, q[i].z)]]
    IN SortByPriority(r, PriorityRange(r))

\* variant of Sort that puts the later of two equal priorities first
SortLatestFirst(q) ==
    LET r == [i \in DOMAIN q |-> q[Len(q) + 1 - i]]
    IN SortByPriority(r, PriorityRange(r))

Sort(q) == SortByPriority(q, PriorityRange(q))

\* lines 355-359: shift up to chunksPerFrame items and materialize them
\* variant of LoadCount that ignores the per-frame budget
LoadCountUnbudgeted(q) == Len(q)

LoadCount(q) == Min(chunksPerFrame, Len(q))

\* lines 362-375: shift up to removalsPerFrame items and delete their keys
\* variant of RemovalCount with the load budget in place of the removal budget
RemovalCountAsLoads(q) == Min(chunksPerFrame, Len(q))

\* variant of RemovalCount that retires nothing while more loads are pending
\* than one frame can materialize
RemovalCountAfterLoads(q) ==
    IF Len(chunkLoadQueue) > chunksPerFrame THEN 0 ELSE Min(removalsPerFrame, Len(q))

RemovalCount(q) == Min(removalsPerFrame, Len(q))

\* variant of Retire that unregisters the visuals but leaves the keys in the Map
RetireKeepingKeys(items, m) == m

RECURSIVE Retire(_, _)
Retire(items, m) ==
    IF items = <<>> THEN m
    ELSE Retire(Tail(items), MapDelete(m, Head(items).key))

\* variant of RemoveVisuals that unregisters the chunk mesh only
RemoveVisualsMeshOnly(items, sc) ==
    sc \ {<<items[i].chunk.id, "mesh", 0>> : i \in DOMAIN items}

\* lines 364-373: scene.remove of the mesh, of every tree's trunk and top
\* when the chunk has trees, and of the water plane when it has one
RemoveVisuals(items, sc) ==
    ((sc \ {<<items[i].chunk.id, "mesh", 0>> : i \in DOMAIN items})
        \ UNION {TreeVisuals(items[i].chunk) : i \in DOMAIN items})
        \ UNION {WaterVisuals(items[i].chunk) : i \in DOMAIN items}

(* ---------------- the earlier version's synchronous updateTerrain -------- *)
\* the earlier version is run on the same flight: its observer stands in the
\* chunk of its own grid that has the coordinates of the current chunk
syncCameraX == currentChunkX * syncChunkSize

syncCameraZ == currentChunkZ * syncChunkSize

\* part_000 lines 143-144
SyncCurrentChunkX == syncCameraX \div syncChunkSize

SyncCurrentChunkZ == syncCameraZ \div syncChunkSize

\* part_000 lines 134-137: the keys set by createInitialTerrain
SyncInitialTerrain ==
    {KeyOf(x, z) : x \in (-syncChunksVisible)..syncChunksVisible,
                   z \in (-syncChunksVisible)..syncChunksVisible}

\* part_000 lines 147-155: every missing key of the window is created and set
SyncCreateMissing(keys) ==
    keys \cup {KeyOf(x, z) :
                 x \in (SyncCurrentChunkX - syncChunksVisible)..(SyncCurrentChunkX + syncChunksVisible),
                 z \in (SyncCurrentChunkZ - syncChunksVisible)..(SyncCurrentChunkZ + syncChunksVisible)}

\* part_000 lines 158-165: every far key is deleted
SyncRemoveFar(keys) ==
    {key \in keys :
        ~(\/ Abs(SplitKey(key)[1] - SyncCurrentChunkX) > syncChunksVisible
          \/ Abs(SplitKey(key)[2] - SyncCurrentChunkZ) > syncChunksVisible)}

\* part_000 lines 142-166
SyncUpdateTerrain(keys) == SyncRemoveFar(SyncCreateMissing(keys))

\* variant of ReadObserver that divides the camera position in place
ReadObserverInPlace ==
    /\ cameraX' = Floor(cameraX)
    /\ cameraZ' = Floor(cameraZ)
    /\ direction' = direction

\* lines 293-307: the camera position and quaternion are only read; the
\* heading is computed on a new Vector3
ReadObserver == UNCHANGED <<cameraX, cameraZ, direction>>

updateTerrain ==
    /\ pc = "updateTerrain"
    /\ LET pushed  == EnqueuedRemovals
           loadQ   == Sort(chunkLoadQueue \o EnqueuedLoads)
           removeQ == chunkRemovalQueue \o pushed
           nLoad   == LoadCount(loadQ)
           nRemove == RemovalCount(removeQ)
           popped  == SubSeq(loadQ, 1, nLoad)
           retired == SubSeq(removeQ, 1, nRemove)
           created == Materialize(popped,
                                  [m |-> terrainChunks, scene |-> scene,
                                   random |-> randomState, candidates |-> <<>>],
                                  removeQ, seed)
       IN /\ chunkLoadQueue' = SubSeq(loadQ, nLoad + 1, Len(loadQ))
          /\ chunkRemovalQueue' = SubSeq(removeQ, nRemove + 1, Len(removeQ))
          /\ terrainChunks' = Retire(retired, created.m)
          /\ scene' = RemoveVisuals(retired, created.scene)
          /\ randomState' = created.random
          /\ candidates' = created.candidates
          /\ loaded' = [i \in DOMAIN popped |-> <<popped[i].x, popped[i].z>>]
          /\ evicted' = [i \in DOMAIN retired |-> retired[i].key]
          /\ enqueuedRemovals' = [i \in DOMAIN pushed |-> pushed[i].key]
          /\ enqueuedLoads' = EnqueuedLoads
    /\ pc' = "updateFlight"
    /\ ReadObserver
    /\ syncChunks' = SyncUpdateTerrain(syncChunks)
    /\ UNCHANGED <<moves, seed, cameraY>>

(* ---------------- updateFlight: the observer's pose ---------------------- *)
\* lines 389-390 and 410: terrainHeight is sampled at the position the camera
\* has when updateFlight starts, and the altitude y reached by the move is
\* raised to terrainHeight + minClearance
ClampAltitude(y) ==
    Max(y, getElevation(seed, cameraX, cameraZ) + minClearance * HeightUnit)

\* sampled offsets inside a chunk: progress 0 (below 1 - loadThreshold) and
\* progress 0.75 (above loadThreshold)
Offsets == {0, (3 * chunkSize) \div 4}

PositionsX == {c * chunkSize + o : c \in 0..MaxChunkX, o \in Offsets}
PositionsZ == {c * chunkSize + o : c \in 0..MaxChunkZ, o \in Offsets}

\* horizontal components of the heading, in hundredths
Directions == {<<0, -100>>, <<100, 0>>, <<-100, 0>>, <<71, 71>>}

updateFlight ==
    /\ pc = "updateFlight"
    /\ \E nx \in PositionsX, nz \in PositionsZ, d \in Directions :
         /\ Abs(Floor(nx) - Floor(cameraX)) <= MaxJump
         /\ Abs(Floor(nz) - Floor(cameraZ)) <= MaxJump
         /\ cameraX' = nx
         /\ cameraZ' = nz
         /\ direction' = d
         /\ moves' = IF <<nx, nz, d>> = <<cameraX, cameraZ, direction>> THEN moves ELSE moves + 1
    /\ moves' <= MaxMoves
    /\ cameraY' = ClampAltitude(cameraY)
    /\ UNCHANGED syncChunks
    /\ pc' = "updateTerrain"
    /\ UNCHANGED <<terrainChunks, chunkLoadQueue, chunkRemovalQueue, loaded,
                   evicted, enqueuedRemovals, seed, randomState, scene, candidates,
                   enqueuedLoads>>

(* ---------------- specification ------------------------------------------ *)
Init ==
    /\ cameraX = 0
    /\ cameraZ = 0
    /\ direction = <<0, -100>>
    /\ seed = DefaultSeed
    /\ terrainChunks = InitialWorld.m
    /\ scene = InitialWorld.scene
    /\ randomState = InitialWorld.random
    /\ candidates = InitialWorld.candidates
    /\ chunkLoadQueue = <<>>
    /\ chunkRemovalQueue = <<>>
    /\ pc = "updateFlight"
    /\ moves = 0
    /\ loaded = <<>>
    /\ evicted = <<>>
    /\ enqueuedRemovals = <<>>
    /\ enqueuedLoads = <<>>
    /\ cameraY = initialAltitude * HeightUnit
    /\ syncChunks = SyncInitialTerrain

Next == updateFlight \/ updateTerrain

Spec == Init /\ [][Next]_vars

\* animate() re-arms itself with requestAnimationFrame in every frame, so
\* both halves of a frame keep being run.  Each half is enabled exactly when
\* pc names it, and within Spec the only step that moves pc away from a half
\* is that half, so fairness is stated on the hand-over of pc.
runUpdateFlight == pc = "updateFlight" /\ pc' = "updateTerrain"

runUpdateTerrain == pc = "updateTerrain" /\ pc' = "updateFlight"

FairSpec == Spec /\ WF_pc(runUpdateFlight) /\ WF_pc(runUpdateTerrain)

(* ---------------- sustained travel --------------------------------------- *)
\* the observer advances one chunk per frame along +x, heading +x
travel ==
    /\ pc = "updateFlight"
    /\ moves < MaxTravel
    /\ cameraX' = cameraX + chunkSize
    /\ direction' = <<100, 0>>
    /\ moves' = moves + 1
    /\ cameraY' = ClampAltitude(cameraY)
    /\ UNCHANGED syncChunks
    /\ pc' = "updateTerrain"
    /\ UNCHANGED <<cameraZ, terrainChunks, chunkLoadQueue, chunkRemovalQueue,
                   loaded, evicted, enqueuedRemovals, seed, randomState, scene,
                   candidates, enqueuedLoads>>

TravelNext == travel \/ updateTerrain

TravelSpec == Init /\ [][TravelNext]_vars

\* level flight along an axis at a speed of at most maxSpeed: the displacement
\* of a frame is direction * speed (line 407), sampled at whole units
Steps == {v \in 0..MaxStep : 10 * v <= maxSpeedTenths}

Headings == {<<0, -100>>, <<100, 0>>, <<-100, 0>>}

fly ==
    /\ pc = "updateFlight"
    /\ moves < MaxFly
    /\ \E v \in Steps, d \in Headings :
         /\ cameraX' = cameraX + (d[1] \div 100) * v
         /\ cameraZ' = cameraZ + (d[2] \div 100) * v
         /\ direction' = d
    /\ moves' = moves + 1
    /\ cameraY' = ClampAltitude(cameraY)
    /\ UNCHANGED syncChunks
    /\ pc' = "updateTerrain"
    /\ UNCHANGED <<terrainChunks, chunkLoadQueue, chunkRemovalQueue, loaded,
                   evicted, enqueuedRemovals, seed, randomState, scene, candidates,
                   enqueuedLoads>>

FlyNext == fly \/ updateTerrain

FlySpec == Init /\ [][FlyNext]_vars

\* an out-and-back flight: one chunk along +x, then one chunk back along -x
\* in every frame, at any sampled progress and heading
retreat ==
    /\ pc = "updateFlight"
    /\ moves < MaxRetreat
    /\ \E o \in Offsets, d \in Directions :
         /\ cameraX' = (IF moves = 0 THEN Floor(cameraX) + 1 ELSE Floor(cameraX) - 1) * chunkSize + o
         /\ direction' = d
    /\ moves' = moves + 1
    /\ cameraY' = ClampAltitude(cameraY)
    /\ UNCHANGED syncChunks
    /\ pc' = "updateTerrain"
    /\ UNCHANGED <<cameraZ, terrainChunks, chunkLoadQueue, chunkRemovalQueue,
                   loaded, evicted, enqueuedRemovals, seed, randomState, scene,
                   candidates, enqueuedLoads>>

RetreatNext == retreat \/ updateTerrain

RetreatSpec == Init /\ [][RetreatNext]_vars

\* a flight that turns back and forth along x and then holds its chunk: in
\* each of its first frames the observer stays or moves to a neighbouring
\* chunk, afterwards it stays in the chunk it has reached
Jumps == {-1, 0, 1}

shuttle ==
    /\ pc = "updateFlight"
    /\ moves < MaxShuttle
    /\ \E j \in Jumps :
         /\ (moves >= MaxTurns) => j = 0
         /\ cameraX' = (Floor(cameraX) + j) * chunkSize
    /\ moves' = moves + 1
    /\ cameraY' = ClampAltitude(cameraY)
    /\ pc' = "updateTerrain"
    /\ UNCHANGED <<cameraZ, direction, terrainChunks, chunkLoadQueue,
                   chunkRemovalQueue, loaded, evicted, enqueuedRemovals, seed,
                   randomState, scene, candidates, enqueuedLoads, syncChunks>>

ShuttleNext == shuttle \/ updateTerrain

ShuttleSpec == Init /\ [][ShuttleNext]_vars

\* runs of sustained travel over terrain of other seeds: level terrain,
\* ridges running across z, ridges running across x
Seeds == {<<0, 0>>, <<0, 3>>, <<3, 0>>}

SeededInit ==
    \E sd \in Seeds :
        LET w == createInitialTerrain(sd, FirstRandom)
        IN /\ cameraX = 0
           /\ cameraZ = 0
           /\ direction = <<-100, 0>>
           /\ seed = sd
           /\ terrainChunks = w.m
           /\ scene = w.scene
           /\ randomState = w.random
           /\ candidates = w.candidates
           /\ chunkLoadQueue = <<>>
           /\ chunkRemovalQueue = <<>>
           /\ pc = "updateFlight"
           /\ moves = 0
           /\ loaded = <<>>
           /\ evicted = <<>>
           /\ enqueuedRemovals = <<>>
           /\ enqueuedLoads = <<>>
           /\ cameraY = initialAltitude * HeightUnit
           /\ syncChunks = SyncInitialTerrain

SeededSpec == SeededInit /\ [][TravelNext]_vars

(* ---------------- properties --------------------------------------------- *)
\* a state in which updateTerrain has just run for the current camera pose
AfterStep == pc = "updateFlight" /\ moves > 0

InWindow(x, z) ==
    /\ Abs(x - currentChunkX) <= chunksVisible
    /\ Abs(z - currentChunkZ) <= chunksVisible

\* C1: one updateTerrain step adds at most chunksPerFrame keys to
\* terrainChunks and deletes at most removalsPerFrame keys from it, whatever
\* the lengths of the two queues.
C1_BudgetRespect ==
    [][/\ Cardinality(MapKeys(terrainChunks') \ MapKeys(terrainChunks)) <= chunksPerFrame
       /\ Cardinality(MapKeys(terrainChunks) \ MapKeys(terrainChunks')) <= removalsPerFrame]_vars

\* a step that used both budgets in full and left work in both queues
C1_Witness ==
    /\ AfterStep
    /\ Len(loaded) = chunksPerFrame
    /\ Len(evicted) = removalsPerFrame
    /\ Len(chunkLoadQueue) > chunksPerFrame
    /\ Len(chunkRemovalQueue) > removalsPerFrame

\* C2: no coordinate is queued for load while resident, and none is queued
\* for load and for removal at once.
C2_OneLifecycleState ==
    /\ MapKeys(chunkLoadQueue) \cap MapKeys(terrainChunks) = {}
    /\ MapKeys(chunkLoadQueue) \cap MapKeys(chunkRemovalQueue) = {}

\* both queues hold work after a step that materialized and evicted chunks
C2_Witness ==
    /\ AfterStep
    /\ loaded # <<>>
    /\ evicted # <<>>
    /\ chunkLoadQueue # <<>>
    /\ chunkRemovalQueue # <<>>

\* C3: every removal item's key is a key of terrainChunks and the item holds
\* the chunk object stored under that key.
C3_RemovalItemsResident ==
    \A i \in DOMAIN chunkRemovalQueue :
        /\ MapHas(terrainChunks, chunkRemovalQueue[i].key)
        /\ MapGet(terrainChunks, chunkRemovalQueue[i].key) = chunkRemovalQueue[i].chunk

\* removal items survive a step that evicted and re-created chunks
C3_Witness ==
    /\ AfterStep
    /\ chunkRemovalQueue # <<>>
    /\ evicted # <<>>
    /\ \E i \in DOMAIN loaded : \E j \in DOMAIN terrainChunks :
          /\ terrainChunks[j].key = KeyOf(loaded[i][1], loaded[i][2])
          /\ terrainChunks[j].chunk.id <= Side * Side

\* C4: each queue holds a coordinate at most once.
C4_NoDuplicates ==
    /\ \A i, j \in DOMAIN chunkLoadQueue :
          chunkLoadQueue[i].key = chunkLoadQueue[j].key => i = j
    /\ \A i, j \in DOMAIN chunkRemovalQueue :
          chunkRemovalQueue[i].key = chunkRemovalQueue[j].key => i = j

\* a step found wanted coordinates already queued for load and far chunks
\* already queued for removal, and pushed no second item for them
C4_Witness ==
    /\ AfterStep
    /\ enqueuedRemovals = <<>>
    /\ \E i \in DOMAIN chunkRemovalQueue : OutOfRange(chunkRemovalQueue[i].key)
    /\ \E i \in DOMAIN chunkLoadQueue : InWindow(chunkLoadQueue[i].x, chunkLoadQueue[i].z)

\* C7: when a step materializes a coordinate outside the look-ahead cone, no
\* coordinate inside the cone is materialized after it or left in the queue.
C7_ConeFirst ==
    AfterStep =>
        \A i \in DOMAIN loaded :
            ~inDirectionCone(loaded[i][1], loaded[i][2]) =>
                /\ \A j \in DOMAIN loaded :
                      j > i => ~inDirectionCone(loaded[j][1], loaded[j][2])
                /\ \A k \in DOMAIN chunkLoadQueue :
                      ~inDirectionCone(chunkLoadQueue[k].x, chunkLoadQueue[k].z)

\* C8: a step never evicts a coordinate that lies inside its own want-set.
C8_NoEvictionOfWanted ==
    AfterStep => \A i \in DOMAIN evicted : OutOfRange(evicted[i])

\* C9: every coordinate a step materializes lies inside its own want-set.
C9_NoStaleLoad ==
    AfterStep => \A i \in DOMAIN loaded : InWindow(loaded[i][1], loaded[i][2])

\* the want-set of the current chunk
WantSet ==
    {KeyOf(x, z) : x \in (currentChunkX - chunksVisible)..(currentChunkX + chunksVisible),
                   z \in (currentChunkZ - chunksVisible)..(currentChunkZ + chunksVisible)}

\* C5: at the end of a step that leaves both queues empty, terrainChunks has
\* at most (2*chunksVisible+1)^2 keys.
C5_BoundedWhenDrained ==
    (AfterStep /\ chunkLoadQueue = <<>> /\ chunkRemovalQueue = <<>>)
        => Cardinality(MapKeys(terrainChunks)) <= Side * Side

\* a step that did the last pending work after the observer moved, leaving
\* both queues empty and a full window resident
C5_Witness ==
    /\ AfterStep
    /\ chunkLoadQueue = <<>>
    /\ chunkRemovalQueue = <<>>
    /\ (loaded # <<>> \/ evicted # <<>>)
    /\ currentChunkX # 0
    /\ Cardinality(MapKeys(terrainChunks)) = Side * Side

\* both queues are empty and the resident keys are exactly the want-set
Quiescent ==
    /\ chunkLoadQueue = <<>>
    /\ chunkRemovalQueue = <<>>
    /\ MapKeys(terrainChunks) = WantSet

\* C6: once the observer stays in one chunk (every behaviour of FairSpec ends
\* that way), after finitely many steps both queues are empty and the resident
\* keys are exactly the want-set of that chunk, and this then stays so.
C6_DrainsToWantSet == <>[]Quiescent

\* the step that retired the last chunk left behind made the store exactly
\* the want-set of the chunk the observer moved into
C6_Witness ==
    /\ Quiescent
    /\ pc = "updateFlight"
    /\ currentChunkX = MaxChunkX
    /\ moves = MaxMoves
    /\ evicted # <<>>
    /\ \A i \in DOMAIN evicted : SplitKey(evicted[i])[1] = MaxChunkX - chunksVisible - 1

\* C10 as stated, with twice the window as the configuration-only bound: the
\* number of resident chunks never exceeds 2*(2*chunksVisible+1)^2.
C10_ResidentsBounded == Cardinality(MapKeys(terrainChunks)) <= 2 * Side * Side

\* C10 amended: while the observer advances one chunk per step, every step
\* raises the number of resident chunks by chunksPerFrame - removalsPerFrame,
\* so after n steps it is (2*chunksVisible+1)^2 + n*(chunksPerFrame - removalsPerFrame).
C10_GrowthPerStep ==
    AfterStep =>
        Cardinality(MapKeys(terrainChunks))
            = Side * Side + moves * (chunksPerFrame - removalsPerFrame)

\* the resident set has outgrown the window by a whole window
C10_Witness ==
    /\ AfterStep
    /\ Cardinality(MapKeys(terrainChunks)) >= 2 * Side * Side
    /\ Len(loaded) = chunksPerFrame
    /\ Len(evicted) = removalsPerFrame

\* C11: the removal queue is drained first-in first-out, removalsPerFrame
\* items per step whatever the load queue holds: in every step the items at
\* positions 1..removalsPerFrame of the queue (old items first, then the ones
\* this step pushed) lose their key in terrainChunks, and every other item
\* moves up by exactly removalsPerFrame places; so an item that enters at
\* position k is deleted within ceil(k / removalsPerFrame) steps.
C11_EvictionNeverStarves ==
    [][pc = "updateTerrain" =>
        LET old    == [i \in DOMAIN chunkRemovalQueue |-> chunkRemovalQueue[i].key]
            before == old \o enqueuedRemovals'
            after  == [i \in DOMAIN chunkRemovalQueue' |-> chunkRemovalQueue'[i].key]
            stored == MapKeys(terrainChunks')
        IN \A k \in DOMAIN before :
              IF k <= removalsPerFrame
              THEN before[k] \notin stored /\ before[k] \notin Range(after)
              ELSE /\ k - removalsPerFrame \in DOMAIN after
                   /\ after[k - removalsPerFrame] = before[k]]_vars

\* items queued by an earlier step were retired while loads were pending
\* and further items waited behind them
C11_Witness ==
    /\ AfterStep
    /\ enqueuedRemovals = <<>>
    /\ Len(evicted) = removalsPerFrame
    /\ Len(chunkRemovalQueue) >= removalsPerFrame
    /\ Len(chunkLoadQueue) >= chunksPerFrame

\* the lifecycle state of a coordinate, derived from membership
CoordState(key, lq, m, rq) ==
    IF key \in rq THEN "QueuedForRemoval"
    ELSE IF key \in m THEN "Resident"
    ELSE IF key \in lq THEN "Queued"
    ELSE "Absent"

\* C12: in every step every coordinate stays in its state or advances along
\* Absent -> Queued -> Resident -> QueuedForRemoval -> Absent; a step may take
\* Absent -> Queued -> Resident (enqueued and materialized) or
\* Resident -> QueuedForRemoval -> Absent (enqueued and retired) at once, and
\* nothing else: no Queued -> Absent, no QueuedForRemoval -> Resident, no
\* Resident -> Absent that did not pass through chunkRemovalQueue.
C12_LifecycleCycle ==
    [][LET lq  == MapKeys(chunkLoadQueue)
           m   == MapKeys(terrainChunks)
           rq  == MapKeys(chunkRemovalQueue)
           lq2 == MapKeys(chunkLoadQueue')
           m2  == MapKeys(terrainChunks')
           rq2 == MapKeys(chunkRemovalQueue')
           popped  == {KeyOf(loaded'[i][1], loaded'[i][2]) : i \in DOMAIN loaded'}
           pushed  == Range(enqueuedRemovals')
           retired == Range(evicted')
       IN \A key \in lq \cup m \cup rq \cup lq2 \cup m2 \cup rq2 :
            LET s == CoordState(key, lq, m, rq)
                t == CoordState(key, lq2, m2, rq2)
            IN /\ s = "Absent" =>
                     t \in {"Absent", "Queued"} \/ (t = "Resident" /\ key \in popped)
               /\ s = "Queued" =>
                     t = "Queued" \/ (t = "Resident" /\ key \in popped)
               /\ s = "Resident" =>
                     \/ t \in {"Resident", "QueuedForRemoval"}
                     \/ (t = "Absent" /\ key \in pushed /\ key \in retired)
               /\ s = "QueuedForRemoval" =>
                     t = "QueuedForRemoval" \/ (t = "Absent" /\ key \in retired)]_vars

\* a coordinate of the initial window went round the whole cycle: it was
\* retired, queued again and has just been materialized a second time
C12_Witness ==
    /\ AfterStep
    /\ \E i \in DOMAIN loaded :
          Abs(loaded[i][1]) <= chunksVisible /\ Abs(loaded[i][2]) <= chunksVisible

\* the step that follows the observer's move from chunk (0,0) into chunk
\* (1,0), 75% through it, heading +x
LeadingEdgeStep ==
    /\ AfterStep
    /\ moves = 1
    /\ cameraX = chunkSize + (3 * chunkSize) \div 4
    /\ cameraZ = 0
    /\ direction = <<100, 0>>
    /\ enqueuedRemovals # <<>>

\* the priorities the last step assigned to coordinate (x, z): that of its
\* load item, still queued or materialized by the step
AssignedPriority(x, z) ==
    {chunkLoadQueue[i].priority : i \in {j \in DOMAIN chunkLoadQueue :
                                          chunkLoadQueue[j].key = KeyOf(x, z)}}
    \cup {Priority(loaded[i][1], loaded[i][2]) : i \in {j \in DOMAIN loaded :
                                                        loaded[j] = <<x, z>>}}

\* C18 as stated: that step assigns (6,0) a priority strictly higher than the
\* one it assigns to (-6,0).
C18_LeadingOverTrailing ==
    LeadingEdgeStep =>
        \E p \in AssignedPriority(chunksVisible + 1, 0) :
            \E q \in AssignedPriority(-(chunksVisible + 1), 0) : p > q

\* C18 amended: that step enqueues (6,0) with priority 10 and materializes
\* it; it assigns no priority to (-6,0), which lies outside the load window
\* of chunk (1,0) and is not enqueued (the priority expression would give it
\* -7, which is lower).
C18_LeadingEdgeFirst ==
    LeadingEdgeStep =>
        /\ AssignedPriority(chunksVisible + 1, 0) = {10}
        /\ \E i \in DOMAIN loaded : loaded[i] = <<chunksVisible + 1, 0>>
        /\ AssignedPriority(-(chunksVisible + 1), 0) = {}
        /\ Priority(-(chunksVisible + 1), 0) = -7

\* the leading-edge step has run and left the rest of column 6 queued
C18_Witness ==
    /\ LeadingEdgeStep
    /\ Len(loaded) = chunksPerFrame
    /\ \E i \in DOMAIN chunkLoadQueue : chunkLoadQueue[i].x = chunksVisible + 1

\* C20: updateTerrain leaves the camera position and heading as it found them.
C20_ObserverUnchanged ==
    [][pc = "updateTerrain" =>
          /\ cameraX' = cameraX
          /\ cameraZ' = cameraZ
          /\ direction' = direction]_vars

\* a step ran for a pose away from the initial one, materialized and retired
\* chunks, and the pose is still the one updateFlight had set
C20_Witness ==
    /\ AfterStep
    /\ cameraX = chunkSize
    /\ direction = <<-100, 0>>
    /\ loaded # <<>>
    /\ evicted # <<>>

\* the objects terrain generation registers with the scene
TerrainVisuals(sc) == {v \in sc : v[2] \in {"mesh", "trunk", "top", "water"}}

\* C13: after createInitialTerrain and after every updateTerrain step the
\* terrain meshes, tree meshes and water planes in the scene are exactly
\* those of the chunks in terrainChunks: nothing of an evicted chunk remains
\* and no resident chunk lacks a visual.
C13_SceneMatchesStore ==
    TerrainVisuals(scene) =
        UNION {Visuals(terrainChunks[i].chunk) : i \in DOMAIN terrainChunks}

\* a step that evicted a lake chunk and created a chunk with a tree, while a
\* resident chunk holds both a water plane and a tree
C13_Witness ==
    /\ AfterStep
    /\ \E i \in DOMAIN evicted :
          HasLake(seed, SplitKey(evicted[i])[1], SplitKey(evicted[i])[2])
    /\ \E i \in DOMAIN candidates : candidates[i].accepted
    /\ \E i \in DOMAIN terrainChunks :
          terrainChunks[i].chunk.water /\ terrainChunks[i].chunk.trees # <<>>

\* C14: a chunk carries a water plane if and only if its lake-suitability
\* sample is strictly greater than lakeThreshold; at or below the threshold
\* it has none, in the chunk and in the scene.
C14_WaterIffAboveThreshold ==
    \A i \in DOMAIN terrainChunks :
        LET chunk == terrainChunks[i].chunk
            above == lakeNoise(seed, chunk.x, chunk.z) > lakeThresholdMilli
        IN /\ chunk.water <=> above
           /\ <<chunk.id, "water", 0>> \in scene <=> above

\* resident chunks with a sample above, equal to and below the threshold,
\* one of them created by the step just taken
C14_Witness ==
    /\ AfterStep
    /\ \E i, j, k \in DOMAIN terrainChunks :
          /\ lakeNoise(seed, terrainChunks[i].chunk.x, terrainChunks[i].chunk.z) > lakeThresholdMilli
          /\ terrainChunks[i].chunk.water
          /\ lakeNoise(seed, terrainChunks[j].chunk.x, terrainChunks[j].chunk.z) = lakeThresholdMilli
          /\ ~terrainChunks[j].chunk.water
          /\ lakeNoise(seed, terrainChunks[k].chunk.x, terrainChunks[k].chunk.z) < lakeThresholdMilli
          /\ ~terrainChunks[k].chunk.water
    /\ \E i \in DOMAIN loaded :
          lakeNoise(seed, loaded[i][1], loaded[i][2]) = lakeThresholdMilli

\* what generation decided for a chunk, apart from the object's identity
Generated(chunk) == [vertices |-> chunk.vertices, water |-> chunk.water, trees |-> chunk.trees]

\* C15: a chunk materialized again at a coordinate of the initial window has
\* the height samples, the water-body presence and the vegetation instances
\* (positions, rotations, scales) that createInitialTerrain gave that
\* coordinate.
C15_RegenerationIdentical ==
    AfterStep =>
        \A i \in DOMAIN loaded :
            LET key == KeyOf(loaded[i][1], loaded[i][2])
            IN (MapHas(InitialWorld.m, key) /\ MapHas(terrainChunks, key)) =>
                  Generated(MapGet(terrainChunks, key)) = Generated(MapGet(InitialWorld.m, key))

\* the part of C15 that the generator's state does not reach: heights and
\* water presence of a re-created chunk
C15_TerrainIdentical ==
    AfterStep =>
        \A i \in DOMAIN loaded :
            LET key == KeyOf(loaded[i][1], loaded[i][2])
            IN (MapHas(InitialWorld.m, key) /\ MapHas(terrainChunks, key)) =>
                  /\ MapGet(terrainChunks, key).vertices = MapGet(InitialWorld.m, key).vertices
                  /\ MapGet(terrainChunks, key).water = MapGet(InitialWorld.m, key).water

\* the largest local coordinate of a chunk's grid: its +x and +z edges
Edge == chunkSize \div 2

\* C16: two resident chunks that are edge-adjacent store the same final
\* height at every grid position of their shared edge, lake carving included.
C16_SeamContinuity ==
    \A i, j \in DOMAIN terrainChunks :
        LET a == terrainChunks[i].chunk
            b == terrainChunks[j].chunk
        IN /\ (b.x = a.x + 1 /\ b.z = a.z) =>
                 \A l \in GridCoords : a.vertices[<<Edge, l>>] = b.vertices[<<-Edge, l>>]
           /\ (b.z = a.z + 1 /\ b.x = a.x) =>
                 \A l \in GridCoords : a.vertices[<<l, Edge>>] = b.vertices[<<l, -Edge>>]

\* the part of C16 that holds: before carving, and whenever both chunks or
\* neither has a lake, the shared edge is equal
C16_SeamContinuityUncarved ==
    \A i, j \in DOMAIN terrainChunks :
        LET a == terrainChunks[i].chunk
            b == terrainChunks[j].chunk
        IN (b.x = a.x + 1 /\ b.z = a.z /\ a.water = b.water) =>
               \A l \in GridCoords : a.vertices[<<Edge, l>>] = b.vertices[<<-Edge, l>>]

\* the candidates sampled in the same chunk as candidate c
Region(c) ==
    {d \in Range(candidates) :
        /\ (d.x + Edge) \div chunkSize = (c.x + Edge) \div chunkSize
        /\ (d.z + Edge) \div chunkSize = (c.z + Edge) \div chunkSize}

\* the elevation does not change around the position
Level(c) ==
    /\ getElevation(seed, c.x + 1, c.z) = getElevation(seed, c.x, c.z)
    /\ getElevation(seed, c.x, c.z + 1) = getElevation(seed, c.x, c.z)

\* the elevation changes by the flatness threshold or more over one unit, along x or along z
Steep(c) ==
    \/ Abs(getElevation(seed, c.x + 1, c.z) - getElevation(seed, c.x, c.z)) >= 3 * HeightUnit
    \/ Abs(getElevation(seed, c.x, c.z + 1) - getElevation(seed, c.x, c.z)) >= 3 * HeightUnit

\* C17: where the terrain is level at every candidate of a chunk all of them
\* are accepted, and where it is steep at every candidate of a chunk, in x or
\* in z, all of them are rejected.
C17_Acceptance ==
    \A c \in Range(candidates) :
        /\ (\A d \in Region(c) : Level(d)) => c.accepted
        /\ (\A d \in Region(c) : Steep(d)) => ~c.accepted

\* the part of C17 that holds: level terrain accepts, and terrain steep
\* along x rejects
C17_AcceptanceAlongX ==
    \A c \in Range(candidates) :
        /\ Level(c) => c.accepted
        /\ Abs(getElevation(seed, c.x + 1, c.z) - getElevation(seed, c.x, c.z)) >= 3 * HeightUnit
              => ~c.accepted

\* the position of key in the sequence of items q
IndexOf(q, key) == CHOOSE i \in DOMAIN q : q[i].key = key

\* C21: the step materializes in descending order of stored priority: every
\* materialized coordinate has a priority at least that of every item left in
\* chunkLoadQueue, and of two items of equal priority the one enqueued
\* earlier comes first, among the materialized ones and against the ones left.
C21_DrainedByPriority ==
    [][pc = "updateTerrain" =>
        LET before == chunkLoadQueue \o EnqueuedLoads
            pos(i) == IndexOf(before, KeyOf(loaded'[i][1], loaded'[i][2]))
            rest(j) == IndexOf(before, chunkLoadQueue'[j].key)
        IN /\ \A i \in DOMAIN loaded' : \A j \in DOMAIN chunkLoadQueue' :
                 /\ before[pos(i)].priority >= chunkLoadQueue'[j].priority
                 /\ before[pos(i)].priority = chunkLoadQueue'[j].priority => pos(i) < rest(j)
           /\ \A i, k \in DOMAIN loaded' :
                 i < k => /\ before[pos(i)].priority >= before[pos(k)].priority
                          /\ before[pos(i)].priority = before[pos(k)].priority => pos(i) < pos(k)
           /\ \A j, k \in DOMAIN chunkLoadQueue' :
                 j < k => /\ chunkLoadQueue'[j].priority >= chunkLoadQueue'[k].priority
                          /\ chunkLoadQueue'[j].priority = chunkLoadQueue'[k].priority
                                => rest(j) < rest(k)]_vars

\* the first step of a run, with a full budget materialized, some item left
\* behind with the priority of a materialized one and some with a lower one
C21_Witness ==
    /\ AfterStep
    /\ moves = 1
    /\ Len(loaded) = chunksPerFrame
    /\ \E i \in DOMAIN loaded : \E j \in DOMAIN chunkLoadQueue :
          Priority(loaded[i][1], loaded[i][2]) = chunkLoadQueue[j].priority
    /\ \E i \in DOMAIN loaded : \E j \in DOMAIN chunkLoadQueue :
          Priority(loaded[i][1], loaded[i][2]) > chunkLoadQueue[j].priority

\* C22: right after the enqueue phase of a step, before anything is drained,
\* every coordinate within chunksVisible of currentChunk is a key of
\* terrainChunks or an entry of chunkLoadQueue.  The queue at that point is
\* what the step then materializes followed by what it leaves queued.
C22_WantSetCoveredAfterEnqueue ==
    [][pc = "updateTerrain" =>
        LET afterEnqueue == {KeyOf(loaded'[i][1], loaded'[i][2]) : i \in DOMAIN loaded'}
                            \cup MapKeys(chunkLoadQueue')
        IN \A c \in Range(WindowSeq(currentChunkX, currentChunkZ)) :
              KeyOf(c[1], c[2]) \in MapKeys(terrainChunks) \cup afterEnqueue]_vars

\* a step in a chunk the observer has just entered: the new column was not
\* resident, a budget of it was materialized and the rest is still queued
C22_Witness ==
    /\ AfterStep
    /\ moves = 1
    /\ currentChunkX = 1
    /\ Len(loaded) = chunksPerFrame
    /\ \E j \in DOMAIN chunkLoadQueue : chunkLoadQueue[j].x = currentChunkX + chunksVisible
    /\ \E i \in DOMAIN loaded : loaded[i][1] = currentChunkX + chunksVisible

\* C23: at the end of a step every key of terrainChunks outside the window
\* of that step's currentChunk is in chunkRemovalQueue or was materialized
\* by that step, and every key the step pushed to chunkRemovalQueue is
\* outside the window.
C23_EvictSetQueued ==
    [][pc = "updateTerrain" =>
        /\ \A key \in MapKeys(terrainChunks') :
              OutOfRange(key) =>
                  \/ key \in MapKeys(chunkRemovalQueue')
                  \/ key \in {KeyOf(loaded'[i][1], loaded'[i][2]) : i \in DOMAIN loaded'}
        /\ \A i \in DOMAIN enqueuedRemovals' : OutOfRange(enqueuedRemovals'[i])]_vars

\* a step that pushed a whole column, retired a budget of it and left the
\* rest of it resident and queued
C23_Witness ==
    /\ AfterStep
    /\ Len(enqueuedRemovals) = Side
    /\ Len(evicted) = removalsPerFrame
    /\ Len(chunkRemovalQueue) = Side - removalsPerFrame
    /\ \A j \in DOMAIN chunkRemovalQueue :
          OutOfRange(chunkRemovalQueue[j].key) /\ MapHas(terrainChunks, chunkRemovalQueue[j].key)

\* the axis bonus of C24: 5 when the progress along the axis has crossed
\* loadThreshold in the heading's direction and the coordinate lies strictly
\* further that way
AxisBonus(dir, pos, c, current) ==
    IF \/ (dir > 0 /\ (pos % chunkSize) * 100 > loadThresholdPct * chunkSize /\ c > current)
       \/ (dir < 0 /\ (pos % chunkSize) * 100 < (100 - loadThresholdPct) * chunkSize /\ c < current)
    THEN 5 ELSE 0

StatedBonus(x, z) ==
    AxisBonus(direction[1], cameraX, x, cameraX \div chunkSize)
    + AxisBonus(direction[2], cameraZ, z, cameraZ \div chunkSize)

StatedDistance(x, z) ==
    Max(Abs(x - cameraX \div chunkSize), Abs(z - cameraZ \div chunkSize))

StatedCone(x, z) ==
    /\ Abs(x - (cameraX \div chunkSize + Round(direction[1]))) <= 2
    /\ Abs(z - (cameraZ \div chunkSize + Round(direction[2]))) <= 2

StatedPriority(x, z) ==
    StatedBonus(x, z)
    + (IF StatedCone(x, z) THEN 10 - StatedDistance(x, z) ELSE -StatedDistance(x, z))

\* two items outside the cone with equal bonus, the first farther away
FartherOutsideCone(a, b) ==
    /\ ~StatedCone(a.x, a.z)
    /\ ~StatedCone(b.x, b.z)
    /\ StatedBonus(a.x, a.z) = StatedBonus(b.x, b.z)
    /\ StatedDistance(a.x, a.z) > StatedDistance(b.x, b.z)

\* C24: every item a step pushes to chunkLoadQueue carries the priority
\* b + (10 - d) inside the cone and b - d outside it; of two items pushed by
\* the same step outside the cone with equal b, the farther one has the
\* strictly lower priority.
C24_PriorityFormula ==
    AfterStep =>
        /\ \A i \in DOMAIN enqueuedLoads :
              enqueuedLoads[i].priority = StatedPriority(enqueuedLoads[i].x, enqueuedLoads[i].z)
        /\ \A i, k \in DOMAIN enqueuedLoads :
              FartherOutsideCone(enqueuedLoads[i], enqueuedLoads[k])
                  => enqueuedLoads[i].priority < enqueuedLoads[k].priority

\* a step that pushed an item with a bonus, an item with a negative priority,
\* and two items outside the cone with equal bonus at different distances
C24_Witness ==
    /\ AfterStep
    /\ \E i \in DOMAIN enqueuedLoads : StatedBonus(enqueuedLoads[i].x, enqueuedLoads[i].z) > 0
    /\ \E i \in DOMAIN enqueuedLoads : enqueuedLoads[i].priority < 0
    /\ \E i, k \in DOMAIN enqueuedLoads :
          FartherOutsideCone(enqueuedLoads[i], enqueuedLoads[k])

\* the world positions of a chunk's height samples along x and along z
SampledX(chunk) == {p[1] + chunk.x * chunkSize : p \in DOMAIN chunk.vertices}

SampledZ(chunk) == {p[2] + chunk.z * chunkSize : p \in DOMAIN chunk.vertices}

\* the samples of chunk span [lo, hi] along x and along z
Covers(chunk, px, pz) ==
    /\ \E a, b \in SampledX(chunk) : a <= px /\ px <= b
    /\ \E a, b \in SampledZ(chunk) : a <= pz /\ pz <= b

\* C25: the height samples of chunk (cx, cz) span [cx*S, (cx+1)*S] on both
\* axes, and the chunk stored at currentChunk = floor(position / chunkSize)
\* is the one whose samples cover the observer's position.
C25_FootprintCoversObserver ==
    /\ \A i \in DOMAIN terrainChunks :
          LET chunk == terrainChunks[i].chunk
          IN /\ \A wx \in SampledX(chunk) :
                   chunk.x * chunkSize <= wx /\ wx <= (chunk.x + 1) * chunkSize
             /\ \A wz \in SampledZ(chunk) :
                   chunk.z * chunkSize <= wz /\ wz <= (chunk.z + 1) * chunkSize
             /\ chunk.x * chunkSize \in SampledX(chunk)
             /\ (chunk.x + 1) * chunkSize \in SampledX(chunk)
             /\ chunk.z * chunkSize \in SampledZ(chunk)
             /\ (chunk.z + 1) * chunkSize \in SampledZ(chunk)
    /\ MapHas(terrainChunks, KeyOf(currentChunkX, currentChunkZ)) =>
          Covers(MapGet(terrainChunks, KeyOf(currentChunkX, currentChunkZ)), cameraX, cameraZ)

\* the second half of C25 on its own: the chunk stored at currentChunk covers
\* the observer's position
C25_CurrentChunkCoversObserver ==
    MapHas(terrainChunks, KeyOf(currentChunkX, currentChunkZ)) =>
        Covers(MapGet(terrainChunks, KeyOf(currentChunkX, currentChunkZ)), cameraX, cameraZ)

\* the squared distance of a local grid position from the chunk center
CenterDistance2(p) == p[1] * p[1] + p[2] * p[2]

\* a sample that carving lowered
Lowered(chunk, p) == chunk.vertices[p] < Heights(seed, chunk.x, chunk.z)[p]

\* the parts of C26 that do not depend on the direction of the falloff: a
\* sample changes only below waterLevel + 10, is never raised, and is never
\* lowered to below waterLevel - 15
C26_CarvingBounds ==
    \A i \in DOMAIN terrainChunks :
        LET chunk == terrainChunks[i].chunk
            raw   == Heights(seed, chunk.x, chunk.z)
        IN \A p \in DOMAIN chunk.vertices :
              /\ chunk.vertices[p] # raw[p] => chunk.water /\ raw[p] < (waterLevel + 10) * HeightUnit
              /\ chunk.vertices[p] <= raw[p]
              /\ Lowered(chunk, p) => chunk.vertices[p] >= (waterLevel - 15) * HeightUnit

\* C26: in a chunk with a water body a sample changes only below
\* waterLevel + 10, is never raised, is lowered to no less than
\* waterLevel - 15, and of two lowered samples the one closer to the chunk
\* center is carved at least as deep as the one farther away.
C26_CarvingDeeperAtCenter ==
    /\ C26_CarvingBounds
    /\ \A i \in DOMAIN terrainChunks :
          LET chunk == terrainChunks[i].chunk
          IN chunk.water =>
                \A p, q \in DOMAIN chunk.vertices :
                    (/\ Lowered(chunk, p) /\ Lowered(chunk, q)
                     /\ CenterDistance2(p) < CenterDistance2(q))
                        => chunk.vertices[p] <= chunk.vertices[q]

C28_ClearanceAfterMove ==
    (pc = "updateTerrain" /\ moves > 0) =>
        cameraY >= getElevation(seed, cameraX, cameraZ) + minClearance * HeightUnit

\* C29: an item keeps its key, coordinate and priority for as long as it is
\* in chunkLoadQueue: a step, whatever the observer's pose has become, only
\* removes queued items, by materializing them, and reorders the rest.
C29_QueuedPriorityFixed ==
    [][/\ \A j \in DOMAIN chunkLoadQueue' :
             QueueHas(chunkLoadQueue, chunkLoadQueue'[j].key)
                 => chunkLoadQueue'[j] \in Range(chunkLoadQueue)
       /\ \A i \in DOMAIN chunkLoadQueue :
             \/ chunkLoadQueue[i] \in Range(chunkLoadQueue')
             \/ /\ pc = "updateTerrain"
                /\ <<chunkLoadQueue[i].x, chunkLoadQueue[i].z>> \in Range(loaded')]_vars

\* after a step at a new pose the queue still holds an item pushed earlier,
\* whose stored priority is not the one the current pose would give it
C29_Witness ==
    /\ AfterStep
    /\ moves = 2
    /\ \E j \in DOMAIN chunkLoadQueue :
          /\ chunkLoadQueue[j] \notin Range(enqueuedLoads)
          /\ chunkLoadQueue[j].priority # Priority(chunkLoadQueue[j].x, chunkLoadQueue[j].z)

\* C30: a step taken in a state where both queues are empty and the keys of
\* terrainChunks are the want-set of the observer's current chunk, at any
\* heading and progress within that chunk, leaves terrainChunks and both
\* queues unchanged and adds or removes no visual.
C30_QuiescenceIsFixedPoint ==
    [][(pc = "updateTerrain" /\ Quiescent) =>
          /\ terrainChunks' = terrainChunks
          /\ chunkLoadQueue' = chunkLoadQueue
          /\ chunkRemovalQueue' = chunkRemovalQueue
          /\ scene' = scene
          /\ loaded' = <<>>
          /\ evicted' = <<>>]_vars

\* a step taken in a quiescent state after the observer moved on within its
\* chunk to a progress beyond loadThreshold: nothing was pushed, loaded or
\* evicted and the state is still quiescent
C30_Witness ==
    /\ AfterStep
    /\ Quiescent
    /\ ProgressAbove(cameraX)
    /\ direction = <<100, 0>>
    /\ enqueuedLoads = <<>>
    /\ enqueuedRemovals = <<>>
    /\ loaded = <<>>
    /\ evicted = <<>>

\* the resident keys of the queued scheduler that lie within the window
ResidentInWindow ==
    {key \in MapKeys(terrainChunks) : ~OutOfRange(key)}

\* at the end of a step the queued scheduler holds no key within the window
\* that the synchronous one does not hold
C31_WindowSubset ==
    AfterStep => ResidentInWindow \subseteq syncChunks

\* C31: run on the same flight as the earlier, synchronous updateTerrain, the
\* queued updateTerrain holds, at the end of every step, no key within the
\* window that the synchronous one does not hold, and at the end of a step
\* that leaves both queues empty it holds exactly the keys the synchronous
\* one holds.
C31_RefinesSynchronous ==
    AfterStep =>
        /\ ResidentInWindow \subseteq syncChunks
        /\ (chunkLoadQueue = <<>> /\ chunkRemovalQueue = <<>>)
              => MapKeys(terrainChunks) = syncChunks

\* both queues have drained with the observer held in its chunk, and the last
\* removal has taken a key of the window that the synchronous scheduler holds
C31_DrainedShort ==
    /\ AfterStep
    /\ moves > MaxTurns + 1
    /\ chunkLoadQueue = <<>>
    /\ chunkRemovalQueue = <<>>
    /\ evicted # <<>>
    /\ \E i \in DOMAIN evicted :
          /\ evicted[i] \in syncChunks
          /\ ~MapHas(terrainChunks, evicted[i])

====
